---- MODULE Spec2Model ----
(***************************************************************************)
(* A model of scrape_tools.py: the list-scraping pipeline that extracts    *)
(* tool entries from awesome-list markdown, resolves each entry's GitHub   *)
(* identity and star count, filters, deduplicates, ranks and writes the    *)
(* tool database.                                                          *)
(*                                                                         *)
(* Python str values are modelled as sequences of one-character strings,   *)
(* and the regular expressions of the source as item sequences run by a    *)
(* backtracking matcher with the priorities of Python's re module.         *)
(***************************************************************************)
EXTENDS Integers, Sequences, FiniteSets, TLC

VARIABLES
    pc,             \* position of the running program
    input,          \* arguments of the function under call
    result,         \* value returned by the function under call
    all_tools,      \* main: the candidates scraped so far
    i,              \* enrich_with_stars: index of the loop
    seen_repos,     \* enrich_with_stars: identities already met
    enriched,       \* enrich_with_stars: the Tool records built so far
    enriched_tools, \* main: the collection being ranked
    output,         \* the contents of tool-database.json, or NoFile
    fetched,        \* per source list: what its scrape returned
    lookups,        \* every star lookup made: the identity asked for and the stars returned
    since_pause     \* star lookups made since the last time.sleep

vars == <<pc, input, result, all_tools, i, seen_repos, enriched, enriched_tools,
          output, fetched, lookups, since_pause>>

----------------------------------------------------------------------------
(* Characters and str methods                                              *)

NL == "\n"
Tab == "\t"
EnDash == "u2013"
EmDash == "u2014"

LowerSeq == <<"a", "b", "c", "d", "e", "f", "g", "h", "i", "j", "k", "l", "m", "n", "o", "p", "q", "r", "s", "t", "u", "v", "w", "x", "y", "z">>
UpperSeq == <<"A", "B", "C", "D", "E", "F", "G", "H", "I", "J", "K", "L", "M", "N", "O", "P", "Q", "R", "S", "T", "U", "V", "W", "X", "Y", "Z">>
DigitSeq == <<"0", "1", "2", "3", "4", "5", "6", "7", "8", "9">>

Range(f) == {f[k] : k \in DOMAIN f}

\* \s of a str pattern
Whitespace == {" ", NL, Tab}

\* \w of a str pattern
WordChars == Range(LowerSeq) \cup Range(UpperSeq) \cup Range(DigitSeq) \cup {"_"}

SetMin(S) == CHOOSE x \in S : \A y \in S : x <= y
SetMax(S) == CHOOSE x \in S : \A y \in S : x >= y

lower_char(c) ==
    IF \E k \in DOMAIN UpperSeq : UpperSeq[k] = c
    THEN LowerSeq[CHOOSE k \in DOMAIN UpperSeq : UpperSeq[k] = c]
    ELSE c

\* the function f on 1..n as a sequence value
sequence(f) == SubSeq(f, 1, Len(f))

\* str.lower()
lower(s) == sequence([k \in 1..Len(s) |-> lower_char(s[k])])

\* the in operator on two str values
contains(s, p) ==
    \E k \in 1..(Len(s) - Len(p) + 1) : SubSeq(s, k, k + Len(p) - 1) = p

\* str.rstrip(chars), str.lstrip(chars), str.strip(chars)
rstrip(s, chars) ==
    LET last == CHOOSE k \in 0..Len(s) :
                    /\ k = 0 \/ s[k] \notin chars
                    /\ \A j \in (k + 1)..Len(s) : s[j] \in chars
    IN  SubSeq(s, 1, last)

lstrip(s, chars) ==
    LET first == CHOOSE k \in 1..(Len(s) + 1) :
                     /\ k = Len(s) + 1 \/ s[k] \notin chars
                     /\ \A j \in 1..(k - 1) : s[j] \in chars
    IN  SubSeq(s, first, Len(s))

strip(s, chars) == lstrip(rstrip(s, chars), chars)

\* s[:n]
prefix(s, n) == SubSeq(s, 1, IF Len(s) < n THEN Len(s) ELSE n)

----------------------------------------------------------------------------
(* Regular expressions: a pattern is a sequence of items, each a literal   *)
(* text, a character class repeated lo..hi times (greedy or lazy,          *)
(* optionally a capture group), or the lookahead for a line end.           *)

Unbounded == -1

Only(chars) == [neg |-> FALSE, chars |-> chars]
Except(chars) == [neg |-> TRUE, chars |-> chars]
AnyChar == Except({NL})

in_class(c, cls) == (c \in cls.chars) # cls.neg

Rep(cls, lo, hi, greedy, group) ==
    [kind |-> "rep", cls |-> cls, lo |-> lo, hi |-> hi, greedy |-> greedy, group |-> group]

One(cls) == Rep(cls, 1, 1, TRUE, 0)
Star(cls) == Rep(cls, 0, Unbounded, TRUE, 0)
Opt(cls) == Rep(cls, 0, 1, TRUE, 0)
LazyStar(cls) == Rep(cls, 0, Unbounded, FALSE, 0)
GroupPlus(cls, g) == Rep(cls, 1, Unbounded, TRUE, g)
GroupLazyPlus(cls, g) == Rep(cls, 1, Unbounded, FALSE, g)
Lit(text) == <<[kind |-> "lit", text |-> text]>>

\* the lookahead (?=\n|$) under re.MULTILINE
LineEnd == <<[kind |-> "eol"]>>

NoMatch == [ok |-> FALSE, start |-> 0, end |-> 0, groups |-> <<>>]

\* how many characters of s from position p on lie in cls, counting up to hi
run_length(s, cls, p, hi) ==
    LET last == IF hi = Unbounded \/ p + hi - 1 > Len(s) THEN Len(s) ELSE p + hi - 1
        stop == CHOOSE k \in p..(last + 1) :
                    /\ k = last + 1 \/ ~in_class(s[k], cls)
                    /\ \A j \in p..(k - 1) : in_class(s[j], cls)
    IN  stop - p

\* the match a literal or a lookahead at p leaves, given the match of the rest
after_fixed(rest, p) == [rest EXCEPT !.start = p]

\* the match a repeated class at p leaves, given the matches of the rest of the
\* pattern after each possible number of repetitions: the most repetitions
\* that let the rest match if greedy, the fewest if lazy
after_repeat(it, p, rests) ==
    LET good == {r \in rests : r.ok}
        r == IF it.greedy
             THEN CHOOSE x \in good : \A y \in good : x.start >= y.start
             ELSE CHOOSE x \in good : \A y \in good : x.start <= y.start
    IN  IF good = {} THEN NoMatch
        ELSE [ok |-> TRUE, start |-> p, end |-> r.end,
              groups |-> IF it.group = 0 THEN r.groups
                         ELSE (it.group :> <<p, r.start - 1>>) @@ r.groups]

at_line_end(s, p) == p = Len(s) + 1 \/ (p <= Len(s) /\ s[p] = NL)

literal_at(s, p, text) ==
    p + Len(text) - 1 <= Len(s) /\ SubSeq(s, p, p + Len(text) - 1) = text

\* the match of items[k..] at position p of s that backtracking finds first
RECURSIVE re_match(_, _, _, _)
re_match(items, k, s, p) ==
    IF k > Len(items) THEN [ok |-> TRUE, start |-> p, end |-> p, groups |-> <<>>]
    ELSE IF items[k].kind = "eol"
    THEN IF at_line_end(s, p) THEN re_match(items, k + 1, s, p) ELSE NoMatch
    ELSE IF items[k].kind = "lit"
    THEN IF literal_at(s, p, items[k].text)
         THEN after_fixed(re_match(items, k + 1, s, p + Len(items[k].text)), p)
         ELSE NoMatch
    ELSE after_repeat(items[k], p,
                      {re_match(items, k + 1, s, p + m) :
                          m \in items[k].lo..run_length(s, items[k].cls, p, items[k].hi)})

\* the leftmost of the matches found at the start positions tried
leftmost(found) ==
    LET good == {m \in found : m.ok}
    IN  IF good = {} THEN NoMatch
        ELSE CHOOSE x \in good : \A y \in good : x.start <= y.start

\* re.search(pattern, s) from position p on: the leftmost match
re_search_from(items, s, p) ==
    leftmost({re_match(items, 1, s, q) : q \in p..(Len(s) + 1)})

re_search(items, s) == re_search_from(items, s, 1)

\* match.group(g)
group(s, m, g) == SubSeq(s, m.groups[g][1], m.groups[g][2])

\* re.sub(pattern, "", s), for patterns that match no empty string: s from
\* position p on without the matches, m being the first match from p on
RECURSIVE re_remove_after(_, _, _, _)
re_remove_after(items, s, p, m) ==
    IF ~m.ok THEN SubSeq(s, p, Len(s))
    ELSE SubSeq(s, p, m.start - 1)
             \o re_remove_after(items, s, m.end, re_search_from(items, s, m.end))

re_remove(items, s) == re_remove_after(items, s, 1, re_search(items, s))

\* re.findall(pattern, s): the matches, left to right, not overlapping, m being
\* the first of them
RECURSIVE re_findall_after(_, _, _)
re_findall_after(items, s, m) ==
    IF ~m.ok THEN <<>>
    ELSE <<m>> \o re_findall_after(items, s, re_search_from(items, s, m.end))

re_findall(items, s) == re_findall_after(items, s, re_search(items, s))

----------------------------------------------------------------------------
(* extract_github_repo                                                     *)

\* Python values that may be None are records tagged with their type
None == [type |-> "None"]
Pair(owner, repo) == [type |-> "tuple", owner |-> owner, repo |-> repo]
Str(text) == [type |-> "str", text |-> text]

RepoChars == Except({"/", ")", "#"} \cup Whitespace)

\* github\.com/([^/]+)/([^/\s\)#]+)
RepoPattern ==
    Lit(<<"g", "i", "t", "h", "u", "b", ".", "c", "o", "m", "/">>) \o <<GroupPlus(Except({"/"}), 1)>> \o Lit(<<"/">>)
        \o <<GroupPlus(RepoChars, 2)>>

\* github\.com/([^/]+)/([^/\s\)#]+)\.git
RepoGitPattern == RepoPattern \o Lit(<<".", "g", "i", "t">>)

patterns == <<RepoPattern, RepoGitPattern>>

\* [^\w\-\.]
NotRepoName == <<One(Except(WordChars \cup {"-", "."}))>>

\* the body of the loop for a pattern that matches
repo_of_match(url, m) ==
    Pair(group(url, m, 1),
         re_remove(NotRepoName, rstrip(rstrip(group(url, m, 2), {"/"}), {")"})))

\* the loop over the patterns from pattern k on, m being the search of pattern k
RECURSIVE try_patterns(_, _, _)
try_patterns(url, k, m) ==
    IF m.ok THEN repo_of_match(url, m)
    ELSE IF k = Len(patterns) THEN None
    ELSE try_patterns(url, k + 1, re_search(patterns[k + 1], url))

extract_github_repo(url) == try_patterns(url, 1, re_search(patterns[1], url))

----------------------------------------------------------------------------
(* parse_awesome_list_content                                              *)

Separators == {"-", EnDash, EmDash, ":"}

\* [-*]\s*\[([^\]]+)\]\(([^)]+)\)\s*[-–—:]?\s*(.+?)(?=\n|$)
EntryPattern ==
    <<One(Only({"-", "*"})), Star(Only(Whitespace))>> \o Lit(<<"[">>)
        \o <<GroupPlus(Except({"]"}), 1)>> \o Lit(<<"]", "(">>)
        \o <<GroupPlus(Except({")"}), 2)>> \o Lit(<<")">>)
        \o <<Star(Only(Whitespace)), Opt(Only(Separators)), Star(Only(Whitespace)),
             GroupLazyPlus(AnyChar, 3)>>
        \o LineEnd

\* \s*\[!\[.*?\]\(.*?\)\]\(.*?\)
BadgePattern ==
    <<Star(Only(Whitespace))>> \o Lit(<<"[", "!", "[">>) \o <<LazyStar(AnyChar)>> \o Lit(<<"]", "(">>)
        \o <<LazyStar(AnyChar)>> \o Lit(<<")", "]", "(">>) \o <<LazyStar(AnyChar)>> \o Lit(<<")">>)

\* !\[.*?\]\(.*?\)
ImagePattern ==
    Lit(<<"!", "[">>) \o <<LazyStar(AnyChar)>> \o Lit(<<"]", "(">>) \o <<LazyStar(AnyChar)>>
        \o Lit(<<")">>)

\* description[:300]
DescriptionLimit == 300

\* len(description) < 10
MinDescription == 10

\* the clean-up of a matched description
clean_description(description) ==
    strip(re_remove(ImagePattern, re_remove(BadgePattern, strip(description, Whitespace))),
          {" ", ".", "-", EnDash, EmDash})

tools_of_match_untruncated(name, url, description, source_list, category) ==
    IF ~contains(lower(url), <<"g", "i", "t", "h", "u", "b", ".", "c", "o", "m">>) THEN <<>>
    ELSE IF Len(description) < MinDescription THEN <<>>
    ELSE <<[name |-> strip(name, Whitespace),
            url |-> strip(url, Whitespace),
            description |-> description,
            source_list |-> source_list,
            category |-> category]>>

\* the body of the loop for one match: what it appends to tools, given the
\* groups of the match and the description cleaned up
tools_of_match(name, url, description, source_list, category) ==
    IF ~contains(lower(url), <<"g", "i", "t", "h", "u", "b", ".", "c", "o", "m">>) THEN <<>>
    ELSE IF Len(description) < MinDescription THEN <<>>
    ELSE <<[name |-> strip(name, Whitespace),
            url |-> strip(url, Whitespace),
            description |-> prefix(description, DescriptionLimit),
            source_list |-> source_list,
            category |-> category]>>

\* the loop over the matches, from match k on
RECURSIVE collect_tools(_, _, _, _, _)
collect_tools(content, matches, k, source_list, category) ==
    IF k > Len(matches) THEN <<>>
    ELSE tools_of_match(group(content, matches[k], 1), group(content, matches[k], 2),
                        clean_description(group(content, matches[k], 3)),
                        source_list, category)
             \o collect_tools(content, matches, k + 1, source_list, category)

parse_awesome_list_content(content, source_list, category) ==
    collect_tools(content, re_findall(EntryPattern, content), 1, source_list, category)

----------------------------------------------------------------------------
(* State of the program before main or a function under call has run       *)

NoFile == [type |-> "NoFile"]

Idle ==
    /\ all_tools = <<>>
    /\ i = 0
    /\ seen_repos = {}
    /\ enriched = <<>>
    /\ enriched_tools = <<>>
    /\ output = NoFile
    /\ fetched = <<>>
    /\ lookups = <<>>
    /\ since_pause = 0

----------------------------------------------------------------------------
(* extract_github_repo under call                                          *)

UrlPrefixes == {<<"h", "t", "t", "p", "s", ":", "/", "/", "g", "i", "t", "h", "u", "b", ".", "c", "o", "m", "/">>, <<"h", "t", "t", "p", ":", "/", "/", "w", "w", "w", ".", "g", "i", "t", "h", "u", "b", ".", "c", "o", "m", "/">>, <<"h", "t", "t", "p", "s", ":", "/", "/", "g", "i", "t", "l", "a", "b", ".", "c", "o", "m", "/">>}
UrlOwners == {<<"o", "w", "n", "e", "r">>, <<"a">>, <<"M", "y", "-", "O", "r", "g">>}
UrlRepos == {<<"r", "e", "p", "o">>, <<"b">>, <<"m", "y", ".", "t", "o", "o", "l">>, <<"x", "_", "y">>}
UrlSuffixes == {<<>>, <<".", "g", "i", "t">>, <<")">>, <<".", "g", "i", "t", ")">>, <<"/">>, <<"#", "r", "e", "a", "d", "m", "e">>, <<"/", "t", "r", "e", "e", "/", "m", "a", "i", "n">>, <<".", "g", "i", "t", "/">>}

UrlInputs == [prefix : UrlPrefixes, owner : UrlOwners, repo : UrlRepos, suffix : UrlSuffixes]

url_of(u) == u.prefix \o u.owner \o <<"/">> \o u.repo \o u.suffix

InitExtract ==
    /\ pc = "call"
    /\ input \in UrlInputs
    /\ result = None
    /\ Idle

ExtractGithubRepo ==
    /\ pc = "call"
    /\ result' = extract_github_repo(url_of(input))
    /\ pc' = "ret"
    /\ UNCHANGED <<input, all_tools, i, seen_repos, enriched, enriched_tools,
                   output, fetched, lookups, since_pause>>

NextExtract == ExtractGithubRepo

SpecExtract == InitExtract /\ [][NextExtract]_vars

OnGithub(u) == contains(u.prefix, <<"g", "i", "t", "h", "u", "b", ".", "c", "o", "m", "/">>)

\* C1: for a URL github.com/<owner>/<repo> followed by .git, by ) or by .git),
\* extract_github_repo returns (<owner>, <repo>), the suffix removed.
C1_SuffixRemoved ==
    (pc = "ret" /\ OnGithub(input) /\ input.suffix \in {<<".", "g", "i", "t">>, <<")">>, <<".", "g", "i", "t", ")">>})
        => result = Pair(input.owner, input.repo)

----------------------------------------------------------------------------
(* generate_tags                                                           *)

Keyword(tag, pats) == [tag |-> tag, patterns |-> pats]

\* the keywords dict, in its insertion order
keywords == <<
    Keyword(<<"c", "l", "i">>, <<<<"c", "l", "i">>, <<"c", "o", "m", "m", "a", "n", "d", "-", "l", "i", "n", "e">>, <<"t", "e", "r", "m", "i", "n", "a", "l">>, <<"c", "o", "m", "m", "a", "n", "d", " ", "l", "i", "n", "e">>>>),
    Keyword(<<"m", "c", "p">>, <<<<"m", "c", "p">>, <<"m", "o", "d", "e", "l", " ", "c", "o", "n", "t", "e", "x", "t", " ", "p", "r", "o", "t", "o", "c", "o", "l">>>>),
    Keyword(<<"a", "i">>, <<<<"a", "i">>, <<"l", "l", "m">>, <<"g", "p", "t">>, <<"c", "l", "a", "u", "d", "e">>, <<"m", "a", "c", "h", "i", "n", "e", " ", "l", "e", "a", "r", "n", "i", "n", "g">>,
                      <<"a", "r", "t", "i", "f", "i", "c", "i", "a", "l", " ", "i", "n", "t", "e", "l", "l", "i", "g", "e", "n", "c", "e">>>>),
    Keyword(<<"g", "i", "t">>, <<<<"g", "i", "t">>, <<"g", "i", "t", "h", "u", "b">>, <<"v", "e", "r", "s", "i", "o", "n", " ", "c", "o", "n", "t", "r", "o", "l">>>>),
    Keyword(<<"m", "a", "c">>, <<<<"m", "a", "c">>, <<"m", "a", "c", "o", "s">>, <<"o", "s", "x">>>>),
    Keyword(<<"p", "r", "o", "d", "u", "c", "t", "i", "v", "i", "t", "y">>, <<<<"p", "r", "o", "d", "u", "c", "t", "i", "v", "i", "t", "y">>, <<"w", "o", "r", "k", "f", "l", "o", "w">>, <<"a", "u", "t", "o", "m", "a", "t", "i", "o", "n">>>>),
    Keyword(<<"d", "o", "c", "u", "m", "e", "n", "t", "a", "t", "i", "o", "n">>, <<<<"d", "o", "c", "u", "m", "e", "n", "t", "a", "t", "i", "o", "n">>, <<"d", "o", "c", "s">>, <<"r", "e", "a", "d", "m", "e">>>>),
    Keyword(<<"a", "p", "i">>, <<<<"a", "p", "i">>, <<"r", "e", "s", "t">>, <<"h", "t", "t", "p">>, <<"r", "e", "q", "u", "e", "s", "t">>>>),
    Keyword(<<"j", "s", "o", "n">>, <<<<"j", "s", "o", "n">>, <<"y", "a", "m", "l">>, <<"d", "a", "t", "a">>>>),
    Keyword(<<"s", "e", "a", "r", "c", "h">>, <<<<"s", "e", "a", "r", "c", "h">>, <<"f", "i", "n", "d">>, <<"g", "r", "e", "p">>>>),
    Keyword(<<"e", "d", "i", "t", "o", "r">>, <<<<"e", "d", "i", "t", "o", "r">>, <<"i", "d", "e">>, <<"v", "i", "m">>, <<"c", "o", "d", "e">>>>),
    Keyword(<<"t", "e", "s", "t", "i", "n", "g">>, <<<<"t", "e", "s", "t">>, <<"t", "e", "s", "t", "i", "n", "g">>, <<"q", "a">>>>),
    Keyword(<<"d", "e", "p", "l", "o", "y", "m", "e", "n", "t">>, <<<<"d", "e", "p", "l", "o", "y">>, <<"d", "e", "p", "l", "o", "y", "m", "e", "n", "t">>, <<"c", "i">>, <<"c", "d">>>>),
    Keyword(<<"d", "o", "c", "k", "e", "r">>, <<<<"d", "o", "c", "k", "e", "r">>, <<"c", "o", "n", "t", "a", "i", "n", "e", "r">>, <<"k", "u", "b", "e", "r", "n", "e", "t", "e", "s">>>>),
    Keyword(<<"d", "a", "t", "a", "b", "a", "s", "e">>, <<<<"d", "a", "t", "a", "b", "a", "s", "e">>, <<"s", "q", "l">>, <<"p", "o", "s", "t", "g", "r", "e", "s">>, <<"m", "y", "s", "q", "l">>>>) >>

\* tags[:6]
TagLimit == 6

\* any(p in desc_lower for p in patterns)
any_pattern(desc_lower, pats) == \E k \in DOMAIN pats : contains(desc_lower, pats[k])

\* the loop over keywords.items(), from entry k on
RECURSIVE scan_keywords(_, _, _)
scan_keywords(desc_lower, tags, k) ==
    IF k > Len(keywords) THEN tags
    ELSE LET kw == keywords[k]
             hit == any_pattern(desc_lower, kw.patterns) /\ kw.tag \notin Range(tags)
         IN  scan_keywords(desc_lower, IF hit THEN Append(tags, kw.tag) ELSE tags, k + 1)

generate_tags_no_lower(description, category) ==
    prefix(scan_keywords(description, <<category>>, 1), TagLimit)

generate_tags(description, category) ==
    prefix(scan_keywords(lower(description), <<category>>, 1), TagLimit)

----------------------------------------------------------------------------
(* generate_tags under call                                                *)

MaxWords == 2

DescWords == {<<"C", "L", "I">>, <<"g", "i", "t">>, <<"a", "u", "t", "o", "m", "a", "t", "i", "o", "n">>, <<"T", "e", "r", "m", "i", "n", "a", "l">>, <<"d", "o", "c", "s">>, <<"m", "a", "c", "O", "S">>,
              <<"L", "L", "M">>, <<"f", "a", "s", "t">>, <<"d", "a", "t", "a">>}

RECURSIVE join_words(_)
join_words(ws) ==
    IF ws = <<>> THEN <<>>
    ELSE IF Len(ws) = 1 THEN ws[1]
    ELSE ws[1] \o <<" ">> \o join_words(Tail(ws))

WordSeqs == UNION {[1..n -> DescWords] : n \in 0..MaxWords}

SampleDescriptions == {
    <<"A", " ", "f", "a", "s", "t", " ", "C", "L", "I", " ", "t", "o", "o", "l", " ", "f", "o", "r", " ", "g", "i", "t", " ", "a", "u", "t", "o", "m", "a", "t", "i", "o", "n">>,
    <<"c", "l", "i", " ", "m", "c", "p", " ", "l", "l", "m", " ", "g", "i", "t", " ", "m", "a", "c", "o", "s", " ", "w", "o", "r", "k", "f", "l", "o", "w", " ", "d", "o", "c", "s">>,
    <<"F", "i", "n", "d", " ", "a", "n", "d", " ", "g", "r", "e", "p", " ", "c", "o", "d", "e", ",", " ", "t", "e", "s", "t", " ", "a", "n", "d", " ", "d", "e", "p", "l", "o", "y", " ", "d", "o", "c", "k", "e", "r", " ", "S", "Q", "L", " ", "o", "v", "e", "r", " ", "H", "T", "T", "P", " ", "a", "s", " ", "Y", "A", "M", "L">> }

Descriptions == {join_words(ws) : ws \in WordSeqs} \cup SampleDescriptions

TagCategories == {<<"c", "l", "i", "-", "t", "o", "o", "l">>, <<"m", "c", "p", "-", "s", "e", "r", "v", "e", "r">>, <<"m", "a", "c", "-", "a", "p", "p">>, <<"g", "i", "t">>}

InitTags ==
    /\ pc = "call"
    /\ input \in [description : Descriptions, category : TagCategories]
    /\ result = None
    /\ Idle

GenerateTags ==
    /\ pc = "call"
    /\ result' = generate_tags(input.description, input.category)
    /\ pc' = "ret"
    /\ UNCHANGED <<input, all_tools, i, seen_repos, enriched, enriched_tools,
                   output, fetched, lookups, since_pause>>

NextTags == GenerateTags

SpecTags == InitTags /\ [][NextTags]_vars

\* the table entries of which a pattern occurs in the lower-cased description
matching(description) ==
    {k \in DOMAIN keywords :
        \E j \in DOMAIN keywords[k].patterns :
            contains(lower(description), keywords[k].patterns[j])}

occurrences(seq, x) == Cardinality({k \in DOMAIN seq : seq[k] = x})

table_index(tag) == CHOOSE k \in DOMAIN keywords : keywords[k].tag = tag

\* C6 as stated: generate_tags returns a list containing exactly once every
\* keyword-table tag of which a pattern occurs in the lower-cased description.
C6_EveryMatchingTagOnce ==
    pc = "ret" =>
        \A k \in matching(input.description) : occurrences(result, keywords[k].tag) = 1

\* C6 as amended: generate_tags returns at most 6 tags without repetition, the
\* category first and then matching keyword tags in table order; a matching tag
\* is left out only when the list is full with the category and five matching
\* tags that come earlier in the table, so that every matching tag is contained
\* exactly once whenever at most five tags other than the category match.
C6_MatchingTagsUpToLimit ==
    pc = "ret" =>
        LET others == {k \in matching(input.description) : keywords[k].tag # input.category}
        IN  /\ Len(result) <= TagLimit
            /\ result[1] = input.category
            /\ \A a, b \in DOMAIN result : a # b => result[a] # result[b]
            /\ \A a \in 2..Len(result) :
                   \E k \in others : keywords[k].tag = result[a]
            /\ \A a, b \in 2..Len(result) :
                   a < b => table_index(result[a]) < table_index(result[b])
            /\ \A k \in others :
                   occurrences(result, keywords[k].tag) = 0 =>
                       /\ Len(result) = TagLimit
                       /\ \A a \in 2..Len(result) : table_index(result[a]) < k
            /\ Cardinality(others) < TagLimit =>
                   \A k \in matching(input.description) :
                       occurrences(result, keywords[k].tag) = 1

\* C6 witness: several keywords of a mixed-case description matched, all returned
C6_MultiKeywordReturned ==
    /\ pc = "ret"
    /\ input.description = <<"A", " ", "f", "a", "s", "t", " ", "C", "L", "I", " ", "t", "o", "o", "l", " ", "f", "o", "r", " ", "g", "i", "t", " ", "a", "u", "t", "o", "m", "a", "t", "i", "o", "n">>
    /\ {<<"c", "l", "i">>, <<"g", "i", "t">>, <<"p", "r", "o", "d", "u", "c", "t", "i", "v", "i", "t", "y">>} \subseteq Range(result)

----------------------------------------------------------------------------
(* parse_awesome_list_content under call                                   *)

MaxLines == 2

\* a bullet entry: its link and the text that follows the link on its line
Entry(name, url, tail) == [kind |-> "entry", name |-> name, url |-> url, tail |-> tail]
Text(text) == [kind |-> "text", text |-> text]

LinePool == {
    Entry(<<"A">>, <<"h", "t", "t", "p", "s", ":", "/", "/", "g", "i", "t", "h", "u", "b", ".", "c", "o", "m", "/", "a", "/", "b">>, <<" ", "-", " ", "f", "i", "r", "s", "t", " ", "t", "o", "o", "l", " ", "d", "e", "s", "c", "r", "i", "p", "t", "i", "o", "n">>),
    Entry(<<"B">>, <<"h", "t", "t", "p", "s", ":", "/", "/", "g", "i", "t", "h", "u", "b", ".", "c", "o", "m", "/", "c", "/", "d">>, <<>>),
    Entry(<<"C">>, <<"h", "t", "t", "p", "s", ":", "/", "/", "g", "i", "t", "h", "u", "b", ".", "c", "o", "m", "/", "e", "/", "f">>, <<" ", "-", " ", "s", "e", "c", "o", "n", "d", " ", "t", "o", "o", "l", " ", "d", "e", "s", "c", "r", "i", "p", "t", "i", "o", "n">>),
    Entry(<<"D">>, <<"h", "t", "t", "p", "s", ":", "/", "/", "e", "x", "a", "m", "p", "l", "e", ".", "c", "o", "m", "/", "x">>, <<" ", "-", " ", "n", "o", "t", " ", "h", "o", "s", "t", "e", "d", " ", "o", "n", " ", "t", "h", "e", " ", "h", "u", "b">>),
    Entry(<<"E">>, <<"h", "t", "t", "p", "s", ":", "/", "/", "g", "i", "t", "h", "u", "b", ".", "c", "o", "m", "/", "g", "/", "h">>, <<" ", "-", " ", "s", "h", "o", "r", "t">>),
    Text(<<" ", " ", "w", "r", "a", "p", "p", "e", "d", " ", "c", "o", "n", "t", "i", "n", "u", "a", "t", "i", "o", "n", " ", "t", "e", "x", "t">>),
    Text(<<"#", "#", " ", "H", "e", "a", "d", "i", "n", "g">>) }

render(line) ==
    IF line.kind = "entry"
    THEN <<"-", " ", "[">> \o line.name \o <<"]", "(">> \o line.url \o <<")">> \o line.tail
    ELSE line.text

\* the lines, each ended by a line break
RECURSIVE join_lines(_)
join_lines(lines) ==
    IF lines = <<>> THEN <<>> ELSE render(Head(lines)) \o <<NL>> \o join_lines(Tail(lines))

ParseSource == <<"a", "w", "e", "s", "o", "m", "e", "-", "c", "l", "i", "-", "a", "p", "p", "s">>
ParseCategory == <<"c", "l", "i", "-", "t", "o", "o", "l">>

InitParse ==
    /\ pc = "call"
    /\ input \in UNION {[1..n -> LinePool] : n \in 0..MaxLines}
    /\ result = None
    /\ Idle

ParseAwesomeListContent ==
    /\ pc = "call"
    /\ result' = parse_awesome_list_content(join_lines(input), ParseSource, ParseCategory)
    /\ pc' = "ret"
    /\ UNCHANGED <<input, all_tools, i, seen_repos, enriched, enriched_tools,
                   output, fetched, lookups, since_pause>>

NextParse == ParseAwesomeListContent

SpecParse == InitParse /\ [][NextParse]_vars

\* C8: every candidate's description comes from the text that follows its link
\* on the link's own line, and every bullet entry that yields a candidate when
\* it stands alone yields it whatever line precedes it.
C8_NoMergeAcrossLines ==
    pc = "ret" =>
        /\ \A c \in Range(result) :
               \E k \in DOMAIN input :
                   /\ input[k].kind = "entry"
                   /\ input[k].name = c.name
                   /\ input[k].url = c.url
                   /\ contains(input[k].tail, c.description)
        /\ \A k \in DOMAIN input :
               \A c \in Range(parse_awesome_list_content(render(input[k]), ParseSource,
                                                         ParseCategory)) :
                   c \in Range(result)

----------------------------------------------------------------------------
(* run_gh_api, get_repo_stars, fetch_awesome_list: the calls to GitHub.    *)
(* What subprocess.run does is an input: it cannot start gh                *)
(* (FileNotFoundError), gh exits non-zero (CalledProcessError, check=True), *)
(* gh prints bytes that text=True cannot decode (UnicodeDecodeError), or   *)
(* it prints text that json.loads rejects or decodes to a dict or a list.  *)

FileNotFoundError == [kind |-> "FileNotFoundError"]
CalledProcessError == [kind |-> "CalledProcessError"]
UnicodeDecodeError == [kind |-> "UnicodeDecodeError"]
InvalidJson == [type |-> "invalid"]
Stdout(json) == [kind |-> "stdout", json |-> json]
Dict(items) == [type |-> "dict", items |-> items]
List(items) == [type |-> "list", items |-> items]

\* an exception that no except clause of the callee catches
Raised == [type |-> "Raised"]

\* the except clauses name CalledProcessError and JSONDecodeError only
run_gh_api(response) ==
    IF response.kind = "CalledProcessError" THEN None
    ELSE IF response.kind # "stdout" THEN Raised
    ELSE IF response.json = InvalidJson THEN None
    ELSE response.json

\* data and isinstance(data, dict)
is_filled_dict(data) == data.type = "dict" /\ DOMAIN data.items # {}

get_repo_stars(response) ==
    LET data == run_gh_api(response)
    IN  IF is_filled_dict(data)
        THEN IF "stargazers_count" \in DOMAIN data.items
             THEN data.items.stargazers_count
             ELSE 0
        ELSE 0

\* what urllib.request.urlopen and decode("utf-8") do is an input: they raise,
\* or give the text of the file
DownloadError == [kind |-> "error"]
Downloaded(text) == [kind |-> "ok", text |-> text]

fetch_awesome_list(response, download) ==
    LET data == run_gh_api(response)
    IN  IF is_filled_dict(data) /\ "download_url" \in DOMAIN data.items
        THEN IF download.kind = "ok" THEN Str(download.text) ELSE None
        ELSE None

----------------------------------------------------------------------------
(* scrape_awesome_mcp_servers, scrape_awesome_cli_apps, scrape_awesome_mac *)

Sources == <<
    [pc |-> "scrape_mcp", source_list |-> <<"a", "w", "e", "s", "o", "m", "e", "-", "m", "c", "p", "-", "s", "e", "r", "v", "e", "r", "s">>, category |-> <<"m", "c", "p", "-", "s", "e", "r", "v", "e", "r">>],
    [pc |-> "scrape_cli", source_list |-> <<"a", "w", "e", "s", "o", "m", "e", "-", "c", "l", "i", "-", "a", "p", "p", "s">>, category |-> <<"c", "l", "i", "-", "t", "o", "o", "l">>],
    [pc |-> "scrape_mac", source_list |-> <<"a", "w", "e", "s", "o", "m", "e", "-", "m", "a", "c">>, category |-> <<"m", "a", "c", "-", "a", "p", "p">>] >>

\* the body shared by the three scrape functions, for source k
scrape(k, response, download) ==
    LET content == fetch_awesome_list(response, download)
    IN  IF content # None /\ content.text # <<>>
        THEN parse_awesome_list_content(content.text, Sources[k].source_list,
                                        Sources[k].category)
        ELSE <<>>

----------------------------------------------------------------------------
(* enrich_with_stars                                                       *)

\* min_stars=500
MinStars == 500

\* i % 10 == 0
PauseEvery == 10

repo_key_cased(owner, repo) == owner \o <<"/">> \o repo

\* f"{owner}/{repo}".lower()
repo_key(owner, repo) == lower(owner \o <<"/">> \o repo)

mark_seen_never(seen, key) == seen

\* seen_repos.add(repo_key)
mark_seen(seen, key) == seen \cup {key}

\* if i > 0 and i % 10 == 0
should_pause(index) == index > 0 /\ index % PauseEvery = 0

meets_threshold_off_by_one(stars, min_stars) == stars >= min_stars - 1

\* if stars >= min_stars
meets_threshold(stars, min_stars) == stars >= min_stars

\* Tool(...)
make_tool(tool, owner, repo, stars) ==
    [name |-> tool.name,
     description |-> tool.description,
     url |-> <<"h", "t", "t", "p", "s", ":", "/", "/", "g", "i", "t", "h", "u", "b", ".", "c", "o", "m", "/">> \o owner \o <<"/">> \o repo,
     stars |-> stars,
     category |-> tool.category,
     source_list |-> tool.source_list,
     tags |-> generate_tags(tool.description, tool.category)]

----------------------------------------------------------------------------
(* main: ranking and truncation                                            *)

\* enriched_tools[:100]
TopLimit == 100

\* the merge of two runs sorted by stars descending, equal stars keeping the
\* left run first
merge_runs(left, right) ==
    LET placed ==
            {<<a + Cardinality({b \in DOMAIN right : right[b].stars > left[a].stars}),
               left[a]>> : a \in DOMAIN left}
            \cup
            {<<b + Cardinality({a \in DOMAIN left : left[a].stars >= right[b].stars}),
               right[b]>> : b \in DOMAIN right}
    IN  sequence([p \in 1..(Len(left) + Len(right)) |-> (CHOOSE x \in placed : x[1] = p)[2]])

RECURSIVE merge_sort(_)
merge_sort(tools) ==
    IF Len(tools) <= 1 THEN tools
    ELSE LET half == Len(tools) \div 2
         IN  merge_runs(merge_sort(SubSeq(tools, 1, half)),
                        merge_sort(SubSeq(tools, half + 1, Len(tools))))

reverse(s) == sequence([k \in 1..Len(s) |-> s[Len(s) + 1 - k]])

sort_reversing_ties(tools) == merge_sort(reverse(tools))

\* enriched_tools.sort(key=lambda t: t.stars, reverse=True)
sort_by_stars(tools) == merge_sort(tools)

\* enriched_tools[:100]
top_tools(tools) == prefix(tools, TopLimit)

\* the dict that json.dump writes
database(tools) ==
    [metadata |-> [version |-> "1.0",
                   tool_count |-> Len(tools),
                   min_stars |-> MinStars,
                   sources |-> <<"punkpeye/awesome-mcp-servers",
                                 "agarrharr/awesome-cli-apps",
                                 "jaywcjlove/awesome-mac">>],
     tools |-> tools]

----------------------------------------------------------------------------
(* The steps of main and of enrich_with_stars                              *)

\* an exception that leaves run_gh_api ends the program with a traceback
Crash ==
    /\ pc' = "crashed"
    /\ UNCHANGED <<input, result, all_tools, i, seen_repos, enriched, enriched_tools,
                   output, fetched, lookups, since_pause>>

\* all_tools.extend(scrape_...()) for source k
Scrape(k, responses, downloads, next) ==
    /\ pc = Sources[k].pc
    /\ \E response \in responses, download \in downloads :
           IF run_gh_api(response) = Raised THEN Crash
           ELSE LET found == scrape(k, response, download)
                IN  /\ all_tools' = all_tools \o found
                    /\ fetched' = Append(fetched,
                           [ok |-> fetch_awesome_list(response, download) # None,
                            found |-> Len(found)])
                    /\ pc' = next
                    /\ UNCHANGED <<input, result, i, seen_repos, enriched,
                                   enriched_tools, output, lookups, since_pause>>

\* one pass of the loop of enrich_with_stars, over tools[i]
EnrichStep(responses) ==
    /\ pc = "enrich"
    /\ i < Len(all_tools)
    /\ LET tool == all_tools[i + 1]
           repo_info == extract_github_repo(tool.url)
           key == repo_key(repo_info.owner, repo_info.repo)
           skip == /\ i' = i + 1
                   /\ UNCHANGED <<pc, input, result, all_tools, seen_repos, enriched,
                                  enriched_tools, output, fetched, lookups, since_pause>>
       IN  IF repo_info = None THEN skip
           ELSE IF key \in seen_repos THEN skip
           ELSE \E response \in responses :
                    IF run_gh_api(response) = Raised THEN Crash
                    ELSE LET stars == get_repo_stars(response)
                         IN  /\ seen_repos' = mark_seen(seen_repos, key)
                             /\ since_pause' =
                                    (IF should_pause(i) THEN 0 ELSE since_pause) + 1
                             /\ lookups' = Append(lookups, [key |-> key, stars |-> stars])
                             /\ enriched' =
                                    IF meets_threshold(stars, MinStars)
                                    THEN Append(enriched,
                                                make_tool(tool, repo_info.owner,
                                                          repo_info.repo, stars))
                                    ELSE enriched
                             /\ i' = i + 1
                             /\ UNCHANGED <<pc, input, result, all_tools, enriched_tools,
                                            output, fetched>>

\* return enriched, and the assignment of the result in main
EnrichReturn ==
    /\ pc = "enrich"
    /\ i = Len(all_tools)
    /\ enriched_tools' = enriched
    /\ pc' = "sort"
    /\ UNCHANGED <<input, result, all_tools, i, seen_repos, enriched, output, fetched,
                   lookups, since_pause>>

Sort ==
    /\ pc = "sort"
    /\ enriched_tools' = sort_by_stars(enriched_tools)
    /\ pc' = "truncate"
    /\ UNCHANGED <<input, result, all_tools, i, seen_repos, enriched, output, fetched,
                   lookups, since_pause>>

Truncate ==
    /\ pc = "truncate"
    /\ enriched_tools' = top_tools(enriched_tools)
    /\ pc' = "write"
    /\ UNCHANGED <<input, result, all_tools, i, seen_repos, enriched, output, fetched,
                   lookups, since_pause>>

Write ==
    /\ pc = "write"
    /\ output' = database(enriched_tools)
    /\ pc' = "done"
    /\ UNCHANGED <<input, result, all_tools, i, seen_repos, enriched, enriched_tools,
                   fetched, lookups, since_pause>>

----------------------------------------------------------------------------
(* What GitHub may answer                                                  *)

StarCounts == {0, 499, 500, 1200}

StarResponses ==
    {FileNotFoundError, CalledProcessError, UnicodeDecodeError, Stdout(InvalidJson), Stdout(List(<<>>)), Stdout(Dict(<<>>)),
     Stdout(Dict([message |-> "Moved Permanently"]))}
        \cup {Stdout(Dict([stargazers_count |-> n])) : n \in StarCounts}

ContentResponses ==
    {FileNotFoundError, CalledProcessError, UnicodeDecodeError, Stdout(InvalidJson), Stdout(List(<<>>)), Stdout(Dict(<<>>)),
     Stdout(Dict([message |-> "Not Found"])),
     Stdout(Dict([download_url |-> "https://raw.githubusercontent.com/README.md"]))}

RECURSIVE repeat(_, _)
repeat(s, n) == IF n = 0 THEN <<>> ELSE s \o repeat(s, n - 1)

\* a description of 324 characters that matches seven keyword tags
LongDescription == repeat(<<"c", "l", "i", " ", "m", "c", "p", " ", "l", "l", "m", " ", "g", "i", "t", " ", "m", "a", "c", "o", "s", " ", "w", "o", "r", "k", "f", "l", "o", "w", " ", "d", "o", "c", "s", " ">>, 9)

Readmes == {
    <<>>,
    <<"#", " ", "A", "w", "e", "s", "o", "m", "e", "\n", "\n", "-", " ", "[", "F", "o", "o", "]", "(", "h", "t", "t", "p", "s", ":", "/", "/", "g", "i", "t", "h", "u", "b", ".", "c", "o", "m", "/", "a", "/", "b", ")", " ", "-", " ", "d", "e", "s", "c", " ", "o", "n", "e", " ", "f", "o", "r", " ", "a", " ", "c", "l", "i", "\n">>,
    <<"-", " ", "[", "F", "o", "o", "2", "]", "(", "h", "t", "t", "p", "s", ":", "/", "/", "g", "i", "t", "h", "u", "b", ".", "c", "o", "m", "/", "A", "/", "B", ")", " ", "-", " ", "d", "e", "s", "c", " ", "t", "w", "o", " ", "a", "b", "o", "u", "t", " ", "g", "i", "t", "\n", "*", " ", "[", "B", "a", "r", "]", "(", "h", "t", "t", "p", "s", ":", "/", "/", "g", "i", "t", "h", "u", "b", ".", "c", "o", "m", "/", "c", "/", "d", ".", "g", "i", "t", ")", ":", " ", "t", "e", "r", "m", "i", "n", "a", "l", " ", "d", "o", "c", "s", " ", "s", "e", "a", "r", "c", "h", " ", "t", "o", "o", "l", "\n">>,
    <<"-", " ", "[", "B", "i", "g", "]", "(", "h", "t", "t", "p", "s", ":", "/", "/", "g", "i", "t", "h", "u", "b", ".", "c", "o", "m", "/", "e", "/", "f", ")", " ", "-", " ">> \o LongDescription \o <<NL>> }

Downloads == {DownloadError} \cup {Downloaded(text) : text \in Readmes}

----------------------------------------------------------------------------
(* main                                                                    *)

Init ==
    /\ pc = "scrape_mcp"
    /\ input = None
    /\ result = None
    /\ Idle

ScrapeAwesomeMcpServers == Scrape(1, ContentResponses, Downloads, "scrape_cli")
ScrapeAwesomeCliApps == Scrape(2, ContentResponses, Downloads, "scrape_mac")
ScrapeAwesomeMac == Scrape(3, ContentResponses, Downloads, "enrich")
Enrich == EnrichStep(StarResponses)

Next ==
    \/ ScrapeAwesomeMcpServers
    \/ ScrapeAwesomeCliApps
    \/ ScrapeAwesomeMac
    \/ Enrich
    \/ EnrichReturn
    \/ Sort
    \/ Truncate
    \/ Write

Spec == Init /\ [][Next]_vars

\* the tools written to the file, none while no file is written
written == IF output = NoFile THEN <<>> ELSE output.tools

\* the tools of the result of enrich_with_stars at any stage of main
kept == Range(enriched) \cup Range(enriched_tools) \cup Range(written)

\* the lower-cased owner/repo path of a tool's url
tool_identity(t) == lower(SubSeq(t.url, Len(<<"h", "t", "t", "p", "s", ":", "/", "/", "g", "i", "t", "h", "u", "b", ".", "c", "o", "m", "/">>) + 1, Len(t.url)))

\* C4: every tool of the result of enrich_with_stars and of the written array
\* has at least the minimum of stars, and a repository whose lookup gave fewer
\* stars than the minimum, 0 from a failed lookup included, is none of them.
C4_StarsAtLeastMinimum ==
    /\ \A t \in kept : t.stars >= MinStars
    /\ \A l \in Range(lookups) :
           l.stars < MinStars => \A t \in kept : tool_identity(t) # l.key

\* the file is written with a tool in it after a lookup gave 499 stars and
\* another lookup failed
C4_RejectedAndWritten ==
    /\ pc = "done"
    /\ written # <<>>
    /\ \E l \in Range(lookups) : l.stars = MinStars - 1
    /\ \E l \in Range(lookups) : l.stars = 0

\* C5: every tool written has a description of at most 300 characters and at
\* most 6 tags, its category among them.
C5_ToolShape ==
    \A t \in Range(written) :
        /\ Len(t.description) <= DescriptionLimit
        /\ Len(t.tags) <= TagLimit
        /\ t.category \in Range(t.tags)

\* a tool is written whose README description was longer than 300 characters
\* and matched more keyword tags than fit
C5_LongEntryWritten ==
    /\ pc = "done"
    /\ \E t \in Range(written) :
           /\ Len(t.description) = DescriptionLimit
           /\ Len(t.tags) = TagLimit

\* C7: whatever the calls to GitHub do, main is never ended by a failure, a
\* source whose fetch fails contributes no candidate while every source is
\* still scraped, and at the end the file is written, with an empty tools
\* array when no call succeeded.
C7_NeverAborts ==
    /\ pc # "crashed"
    /\ \A k \in DOMAIN fetched : ~fetched[k].ok => fetched[k].found = 0
    /\ pc = "done" =>
           /\ output # NoFile
           /\ Len(fetched) = Len(Sources)
           /\ (\A k \in DOMAIN fetched : ~fetched[k].ok) => output.tools = <<>>

----------------------------------------------------------------------------
(* enrich_with_stars under call, on short candidate lists                  *)

MaxCands == 3

Candidate(name, url, description, k) ==
    [name |-> name, url |-> url, description |-> description,
     source_list |-> Sources[k].source_list, category |-> Sources[k].category]

CandidatePool == {
    Candidate(<<"F", "o", "o">>, <<"h", "t", "t", "p", "s", ":", "/", "/", "g", "i", "t", "h", "u", "b", ".", "c", "o", "m", "/", "a", "/", "b">>, <<"d", "e", "s", "c", " ", "o", "n", "e", " ", "f", "o", "r", " ", "a", " ", "c", "l", "i">>, 1),
    Candidate(<<"F", "o", "o", "2">>, <<"h", "t", "t", "p", "s", ":", "/", "/", "g", "i", "t", "h", "u", "b", ".", "c", "o", "m", "/", "A", "/", "B">>, <<"d", "e", "s", "c", " ", "t", "w", "o", " ", "a", "b", "o", "u", "t", " ", "g", "i", "t">>, 2),
    Candidate(<<"B", "a", "r">>, <<"h", "t", "t", "p", "s", ":", "/", "/", "g", "i", "t", "h", "u", "b", ".", "c", "o", "m", "/", "c", "/", "d", ".", "g", "i", "t", ")">>, <<"t", "e", "r", "m", "i", "n", "a", "l", " ", "d", "o", "c", "s", " ", "s", "e", "a", "r", "c", "h", " ", "t", "o", "o", "l">>, 2),
    Candidate(<<"W", "e", "b">>, <<"h", "t", "t", "p", "s", ":", "/", "/", "g", "i", "t", "h", "u", "b", ".", "c", "o", "m", ".", "e", "x", "a", "m", "p", "l", "e", ".", "o", "r", "g", "/", "x">>, <<"n", "o", "t", " ", "a", " ", "r", "e", "p", "o", "s", "i", "t", "o", "r", "y", " ", "l", "i", "n", "k">>, 3) }

InitEnrich ==
    /\ pc = "enrich"
    /\ input = None
    /\ result = None
    /\ all_tools \in UNION {[1..n -> CandidatePool] : n \in 0..MaxCands}
    /\ i = 0
    /\ seen_repos = {}
    /\ enriched = <<>>
    /\ enriched_tools = <<>>
    /\ output = NoFile
    /\ fetched = <<>>
    /\ lookups = <<>>
    /\ since_pause = 0

NextEnrich == Enrich \/ EnrichReturn

SpecEnrich == InitEnrich /\ [][NextEnrich]_vars

\* the lower-cased owner/repo path a candidate's url resolves to, None for a
\* url that resolves to no repository
candidate_identity(c) ==
    IF extract_github_repo(c.url) = None THEN None
    ELSE Str(lower(extract_github_repo(c.url).owner \o <<"/">>
                       \o extract_github_repo(c.url).repo))

\* the candidates passed so far that have the identity of tool t
occurrences_of(t) ==
    {k \in 1..i : candidate_identity(all_tools[k]) = Str(tool_identity(t))}

\* C2: the result holds at most one tool per case-insensitive owner/repo
\* identity, and the tool carries the name, description, category and
\* source_list of the earliest candidate with that identity.
C2_FirstOccurrenceWins ==
    /\ \A a, b \in DOMAIN enriched :
           tool_identity(enriched[a]) = tool_identity(enriched[b]) => a = b
    /\ \A t \in Range(enriched) :
           /\ occurrences_of(t) # {}
           /\ LET first == all_tools[SetMin(occurrences_of(t))]
              IN  /\ t.name = first.name
                  /\ t.description = first.description
                  /\ t.category = first.category
                  /\ t.source_list = first.source_list

\* the loop is over, two candidates of different source lists whose urls
\* differ in case only were passed, and their repository is in the result
C2_DuplicateDropped ==
    /\ pc = "sort"
    /\ \E a, b \in DOMAIN all_tools :
           /\ a < b
           /\ all_tools[a].url # all_tools[b].url
           /\ all_tools[a].source_list # all_tools[b].source_list
           /\ candidate_identity(all_tools[a]) = candidate_identity(all_tools[b])
           /\ \E t \in Range(enriched) :
                  Str(tool_identity(t)) = candidate_identity(all_tools[a])

\* C10: no identity is looked up twice, and an identity whose lookup gave
\* fewer stars than the minimum is not in the result.
C10_OneLookupPerIdentity ==
    /\ \A a, b \in DOMAIN lookups :
           lower(lookups[a].key) = lower(lookups[b].key) => a = b
    /\ \A l \in Range(lookups) :
           l.stars < MinStars =>
               \A t \in Range(enriched) : tool_identity(t) # lower(l.key)

\* the loop is over, an identity's one lookup gave fewer stars than the
\* minimum, and a later candidate had the same identity
C10_RejectedThenRepeated ==
    /\ pc = "sort"
    /\ \E l \in Range(lookups) :
           /\ l.stars < MinStars
           /\ Cardinality({k \in DOMAIN all_tools :
                  candidate_identity(all_tools[k]) = Str(lower(l.key))}) > 1

----------------------------------------------------------------------------
(* enrich_with_stars under call, on long candidate lists                   *)

MaxLong == 12

\* str(n)
RECURSIVE digits(_)
digits(n) ==
    IF n < 10 THEN <<DigitSeq[n + 1]>>
    ELSE digits(n \div 10) \o <<DigitSeq[(n % 10) + 1]>>

\* candidate number k: its own repository, or at position odd a link that is
\* a duplicate of candidate 0 or is no repository link
numbered(k, odd, kind) ==
    Candidate(<<"t", "o", "o", "l", " ">> \o digits(k),
              IF k # odd THEN <<"h", "t", "t", "p", "s", ":", "/", "/", "g", "i", "t", "h", "u", "b", ".", "c", "o", "m", "/", "o", "/", "r">> \o digits(k)
              ELSE IF kind = "duplicate" THEN <<"h", "t", "t", "p", "s", ":", "/", "/", "g", "i", "t", "h", "u", "b", ".", "c", "o", "m", "/", "O", "/", "R", "0">>
              ELSE <<"h", "t", "t", "p", "s", ":", "/", "/", "e", "x", "a", "m", "p", "l", "e", ".", "c", "o", "m", "/", "p", "a", "g", "e">>,
              <<"t", "o", "o", "l", " ", "n", "u", "m", "b", "e", "r", " ">> \o digits(k), 2)

LongLists ==
    {sequence([k \in 1..n |-> numbered(k - 1, odd, kind)]) :
        n \in 0..MaxLong, odd \in 1..MaxLong, kind \in {"duplicate", "no repository"}}

PauseResponses == {Stdout(Dict([stargazers_count |-> 750]))}

InitPause ==
    /\ pc = "enrich"
    /\ input = None
    /\ result = None
    /\ all_tools \in LongLists
    /\ i = 0
    /\ seen_repos = {}
    /\ enriched = <<>>
    /\ enriched_tools = <<>>
    /\ output = NoFile
    /\ fetched = <<>>
    /\ lookups = <<>>
    /\ since_pause = 0

EnrichLong == EnrichStep(PauseResponses)

NextPause == EnrichLong \/ EnrichReturn

SpecPause == InitPause /\ [][NextPause]_vars

\* C9: no more than 10 star lookups are performed without a pause between
\* them.
C9_PauseEveryTen == since_pause <= PauseEvery

----------------------------------------------------------------------------
(* main from the return of enrich_with_stars on: ranking, truncation and   *)
(* the write, on collections around the limit of 100                       *)

MaxSmall == 3
MaxOver == 2

\* star counts by position: all equal, rising, falling, and two with ties
StarPatterns == {"equal", "rising", "falling", "ties of 3", "ties of 2"}

stars_at(pattern, k) ==
    CASE pattern = "equal" -> MinStars
      [] pattern = "rising" -> MinStars + k
      [] pattern = "falling" -> MinStars + 1000 - k
      [] pattern = "ties of 3" -> MinStars + (k % 3)
      [] pattern = "ties of 2" -> MinStars + 10 * ((k \div 2) % 2)

ranked_tool(pattern, k) ==
    make_tool(numbered(k, -1, "duplicate"), <<"o">>, <<"r">> \o digits(k), stars_at(pattern, k))

RankSizes == (0..MaxSmall) \cup ((TopLimit - 1)..(TopLimit + MaxOver))

RankInputs ==
    {sequence([k \in 1..n |-> ranked_tool(pattern, k - 1)]) :
        n \in RankSizes, pattern \in StarPatterns}

InitRank ==
    /\ pc = "sort"
    /\ input = None
    /\ result = None
    /\ all_tools = <<>>
    /\ i = 0
    /\ seen_repos = {}
    /\ enriched \in RankInputs
    /\ enriched_tools = enriched
    /\ output = NoFile
    /\ fetched = <<>>
    /\ lookups = <<>>
    /\ since_pause = 0

NextRank == Sort \/ Truncate \/ Write

SpecRank == InitRank /\ [][NextRank]_vars

\* the place of tool t in the collection enrich_with_stars returned
place(t) == CHOOSE k \in DOMAIN enriched : enriched[k] = t

\* tool t comes before tool u in the stable star-descending order
ranks_before(t, u) == t.stars > u.stars \/ (t.stars = u.stars /\ place(t) < place(u))

\* C3: the tools written are the first 100 of the stable star-descending sort
\* of the enriched collection: at most 100 and none missing below 100, stars
\* never rising, equal stars in insertion order, and every dropped tool behind
\* every retained one.
C3_TopHundredStable ==
    pc = "done" =>
        /\ Len(written) = IF Len(enriched) < TopLimit THEN Len(enriched) ELSE TopLimit
        /\ Range(written) \subseteq Range(enriched)
        /\ \A a, b \in DOMAIN written :
               a < b => ranks_before(written[a], written[b])
        /\ \A d \in Range(enriched) \ Range(written) :
               \A t \in Range(written) : ranks_before(t, d)

\* the file is written from a collection of more than 100 tools with ties
C3_TiesBeyondLimit ==
    /\ pc = "done"
    /\ Len(enriched) > TopLimit
    /\ Len(written) = TopLimit
    /\ \E a, b \in DOMAIN enriched :
           a # b /\ enriched[a].stars = enriched[b].stars
    /\ \E a, b \in DOMAIN enriched :
           enriched[a].stars # enriched[b].stars

====
